---- MODULE Spec2Model ----
(***************************************************************************)
(* Model of stock_monitor.py: one monitoring run (main) reads the status   *)
(* file, classifies the listing page (check_stock_status), decides whether *)
(* to e-mail (send_notification) and writes the status file                *)
(* (save_current_status).  Runs follow each other, never overlap, and      *)
(* share nothing but the status file.                                      *)
(*                                                                         *)
(* A page is described by how often each phrase the code searches for      *)
(* occurs in its lower-cased text.  The text is built from a vocabulary of *)
(* fragments; the pound sign of the price fragments is written GBP.        *)
(***************************************************************************)
EXTENDS Integers, Sequences, FiniteSets

\* ---------------------------------------------------------------- bounds
MaxCount == 3      \* most occurrences of "out of stock" on a page
MaxModel == 2      \* most occurrences of "512gb oled" on a page

\* ------------------------------------------------------ program constants
MinDesktopScore == 3
OutOfStockThreshold == 3
MinModels == 2

Bit == 0..1

Available == {"IN_STOCK", "PARTIAL_STOCK"}
Statuses == {"IN_STOCK", "OUT_OF_STOCK", "PARTIAL_STOCK", "UNKNOWN", "ERROR"}

\* ------------------------------------------------------------------ pages
\* Number of occurrences of each vocabulary fragment in page_text.
Pages ==
  [mobile_version: Bit, steam_deck: Bit, certified_refurbished: Bit,
   valve: Bit, gbp389: Bit, gbp459: Bit, out_of_stock: 0..MaxCount,
   sold_out: Bit, add_to_cart: Bit, buy_now: Bit,
   m512gb_oled: 0..MaxModel, m1tb_oled: Bit]

NoPage == [mobile_version |-> 0, steam_deck |-> 0, certified_refurbished |-> 0,
           valve |-> 0, gbp389 |-> 0, gbp459 |-> 0, out_of_stock |-> 0,
           sold_out |-> 0, add_to_cart |-> 0, buy_now |-> 0,
           m512gb_oled |-> 0, m1tb_oled |-> 0]

\* page_text.count(phrase): occurrences of phrase as a substring.  "buy" also
\* occurs inside every "buy now"; a phrase no fragment contains occurs 0 times.
TextCount(p, phrase) ==
  CASE phrase = "mobile version"        -> p.mobile_version
    [] phrase = "steam deck"            -> p.steam_deck
    [] phrase = "certified refurbished" -> p.certified_refurbished
    [] phrase = "valve"                 -> p.valve
    [] phrase = "GBP389"                -> p.gbp389
    [] phrase = "GBP459"                -> p.gbp459
    [] phrase = "out of stock"          -> p.out_of_stock
    [] phrase = "sold out"              -> p.sold_out
    [] phrase = "add to cart"           -> p.add_to_cart
    [] phrase = "buy now"               -> p.buy_now
    [] phrase = "buy"                   -> p.buy_now
    [] phrase = "512gb oled"            -> p.m512gb_oled
    [] phrase = "1tb oled"              -> p.m1tb_oled
    [] OTHER                            -> 0

mobile_indicators ==
  <<"get the steam mobile app", "view desktop website", "mobile version",
    "switch to desktop">>

desktop_indicators ==
  <<"steam deck", "certified refurbished", "valve", "GBP389", "GBP459",
    "out of stock", "add to cart">>

out_of_stock_variations ==
  <<"out of stock", "outofstock", "sold out", "soldout", "unavailable",
    "not available", "coming soon">>

in_stock_variations ==
  <<"add to cart", "buy now", "purchase", "order now", "buy", "order",
    "available now">>

model_phrases ==
  << <<"512 gb oled", "512gb oled">>, <<"1tb oled", "1 tb oled">>,
     <<"64 gb lcd", "64gb lcd">>, <<"256 gb lcd", "256gb lcd">>,
     <<"512 gb lcd", "512gb lcd">> >>

price_phrases == <<"GBP389", "GBP459", "GBP249", "GBP279", "GBP319">>

RECURSIVE SumCount(_, _)
\* sum(page_text.count(phrase) for phrase in phrases)
SumCount(p, phrases) ==
  IF phrases = << >> THEN 0
  ELSE TextCount(p, Head(phrases)) + SumCount(p, Tail(phrases))

RECURSIVE PresentCount(_, _)
\* sum(1 for indicator in phrases if indicator in page_text)
PresentCount(p, phrases) ==
  IF phrases = << >> THEN 0
  ELSE (IF TextCount(p, Head(phrases)) > 0 THEN 1 ELSE 0)
       + PresentCount(p, Tail(phrases))

mobile_detected(p) == PresentCount(p, mobile_indicators) > 0

desktop_content_score(p) == PresentCount(p, desktop_indicators)

out_of_stock_count(p) == SumCount(p, out_of_stock_variations)

in_stock_count(p) == SumCount(p, in_stock_variations)

RECURSIVE SumModels(_, _)
SumModels(p, models) ==
  IF models = << >> THEN 0
  ELSE LET c == SumCount(p, Head(models))
       IN (IF c > 0 THEN c ELSE 0) + SumModels(p, Tail(models))

total_models(p) == SumModels(p, model_phrases)

price_mentions(p) == SumCount(p, price_phrases)

\* variant: the content threshold is one too low
gate_rejects_low(p) ==
  mobile_detected(p) \/ desktop_content_score(p) < MinDesktopScore - 1

\* the early return of line 117
gate_rejects(p) == mobile_detected(p) \/ desktop_content_score(p) < MinDesktopScore

\* variant: the out-of-stock threshold is compared with > instead of >=
decision_strict_threshold(u, a, m) ==
  IF u > OutOfStockThreshold /\ m >= MinModels THEN "OUT_OF_STOCK"
  ELSE IF a > 0 /\ u = 0 /\ m >= MinModels THEN "IN_STOCK"
  ELSE IF a > 0 /\ u > 0 /\ m >= MinModels THEN "PARTIAL_STOCK"
  ELSE "UNKNOWN"

\* variant: the IN_STOCK branch forgets the model corroboration
decision_uncorroborated(u, a, m) ==
  IF u >= OutOfStockThreshold /\ m >= MinModels THEN "OUT_OF_STOCK"
  ELSE IF a > 0 /\ u = 0 THEN "IN_STOCK"
  ELSE IF a > 0 /\ u > 0 /\ m >= MinModels THEN "PARTIAL_STOCK"
  ELSE "UNKNOWN"

\* the decision logic of lines 171-186 on the three counts
decision(u, a, m) ==
  IF u >= OutOfStockThreshold /\ m >= MinModels THEN "OUT_OF_STOCK"
  ELSE IF a > 0 /\ u = 0 /\ m >= MinModels THEN "IN_STOCK"
  ELSE IF a > 0 /\ u > 0 /\ m >= MinModels THEN "PARTIAL_STOCK"
  ELSE "UNKNOWN"

\* outcome of session.get + raise_for_status + BeautifulSoup
RequestFailures == {"timeout", "transport_error", "http_error"}
FetchOutcomes == {"ok", "parse_error"} \cup RequestFailures

\* variant: a timeout is reported as UNKNOWN
exception_status_timeout_unknown(f) ==
  IF f = "timeout" THEN "UNKNOWN" ELSE "ERROR"

\* status an exception of the try block is turned into (lines 188-193)
exception_status(f) == "ERROR"

check_stock_status(f, p) ==
  IF f # "ok" THEN exception_status(f)
  ELSE IF gate_rejects(p) THEN "ERROR"
  ELSE decision(out_of_stock_count(p), in_stock_count(p), total_models(p))

\* every input check_stock_status can meet: a page that was fetched and
\* parsed, or a failure with no page
Inputs ==
  {<<"ok", p>> : p \in Pages} \cup {<<f, NoPage>> : f \in FetchOutcomes \ {"ok"}}

\* (fetch outcome, returned status) for every input
Outcomes == {<<i[1], check_stock_status(i[1], i[2])>> : i \in Inputs}

\* ------------------------------------------------------------ state store
\* file: content of last_status.json: "absent", "corrupt" (not JSON, or not
\* an object) or the status it records.  The timestamp it also records is
\* only ever printed and is left out.
load_previous_status(f) ==
  IF f \in {"absent", "corrupt"} THEN "None" ELSE f

\* variant: an ERROR classification is not recorded
save_current_status_skip_error(f, status, ok) ==
  IF ok /\ status # "ERROR" THEN status ELSE f

\* content of the file after save_current_status(status); ok = open and
\* json.dump did not raise.  A raise is caught and leaves the file as it was.
save_current_status(f, status, ok) == IF ok THEN status ELSE f

\* ------------------------------------------------------- transition policy
\* variant: a missing previous status does not count as a change
notify_condition_needs_previous(prev, cur) ==
  cur \in Available /\ prev \notin Available /\ prev # "None"

\* variant: a stored ERROR or UNKNOWN keeps the availability memory
notify_condition_sticky(prev, cur) ==
  cur \in Available /\ prev \notin (Available \cup {"ERROR", "UNKNOWN"})

\* the condition of line 238
notify_condition(prev, cur) == cur \in Available /\ prev \notin Available

\* how a call of send_notification ends
DeliveryOutcomes == {"sent", "no_credentials", "smtp_error"}
send_notification(d) == d = "sent"

\* the C2 scenario of five runs
Scenario ==
  <<"OUT_OF_STOCK", "IN_STOCK", "IN_STOCK", "OUT_OF_STOCK", "IN_STOCK">>

VARIABLES
  file,            \* last_status.json
  pc,              \* position of the current run of main
  exitCode,        \* -1 while running, else the exit status of the process
  previous,        \* previous_status of the run ("None" for Python's None)
  fetch,           \* how the request of this run ended ("none" before it)
  page,            \* the page under classification (classifier runs only)
  current,         \* current_status of the run ("none" before the check)
  notifyAttempts,  \* calls of send_notification in this run
  delivery,        \* outcome of that call ("none" if not called)
  saveCalls,       \* calls of save_current_status in this run
  savedStatus,     \* the status passed to save_current_status
  writeOk,         \* whether that call wrote the file
  \* history of the completed runs before the current one
  lastClass,       \* classification of the previous run ("none" if first)
  lastWriteOk,     \* whether the previous run wrote the file
  availMemory,     \* "avail": previous run was available; "avail_then_err":
                   \* an available run followed only by ERROR/UNKNOWN runs
  edgeConsumed,    \* a delivery failed and the file says available since
  scen,            \* runs completed so far that follow Scenario (-1: left it)
  scenNotified     \* which of those runs attempted a notification

runVars == <<pc, exitCode, previous, fetch, current, notifyAttempts, delivery,
             saveCalls, savedStatus, writeOk>>
histVars == <<lastClass, lastWriteOk, availMemory, edgeConsumed, scen,
              scenNotified>>
vars == <<file, page, runVars, histVars>>

InitRun ==
  /\ exitCode = -1
  /\ previous = "None"
  /\ fetch = "none"
  /\ current = "none"
  /\ notifyAttempts = 0
  /\ delivery = "none"
  /\ saveCalls = 0
  /\ savedStatus = "none"
  /\ writeOk = FALSE

InitHist ==
  /\ lastClass = "none"
  /\ lastWriteOk = FALSE
  /\ availMemory = "none"
  /\ edgeConsumed = FALSE
  /\ scen = 0
  /\ scenNotified = {}

\* no run has happened yet; there is no usable status file
Init ==
  /\ file \in {"absent", "corrupt"}
  /\ pc = "init"
  /\ page = NoPage
  /\ InitRun
  /\ InitHist

\* record the run that has just completed before the next process starts
Account ==
  IF pc = "done"
  THEN /\ lastClass' = current
       /\ lastWriteOk' = writeOk
       /\ availMemory' =
            IF current \in Available THEN "avail"
            ELSE IF current \in {"ERROR", "UNKNOWN"} /\ availMemory # "none"
                 THEN "avail_then_err"
            ELSE "none"
       /\ edgeConsumed' =
            IF notifyAttempts = 1 /\ ~send_notification(delivery) /\ writeOk
              THEN TRUE
            ELSE IF writeOk /\ current \notin Available THEN FALSE
            ELSE edgeConsumed
       /\ IF scen \in 0..(Len(Scenario) - 1) /\ current = Scenario[scen + 1]
             /\ writeOk
          THEN /\ scen' = scen + 1
               /\ scenNotified' =
                    IF notifyAttempts = 1 THEN scenNotified \cup {scen + 1}
                    ELSE scenNotified
          ELSE /\ scen' = IF scen = Len(Scenario) THEN scen ELSE -1
               /\ scenNotified' = scenNotified
  ELSE UNCHANGED histVars

\* main, lines 221-224: MONITOR_URL is not set
ConfigMissing ==
  /\ pc \in {"init", "done", "exited"}
  /\ Account
  /\ pc' = "exited"
  /\ exitCode' = 1
  /\ previous' = "None"
  /\ fetch' = "none"
  /\ current' = "none"
  /\ notifyAttempts' = 0
  /\ delivery' = "none"
  /\ saveCalls' = 0
  /\ savedStatus' = "none"
  /\ writeOk' = FALSE
  /\ UNCHANGED <<file, page>>

\* main, lines 221-231: MONITOR_URL is set; load the previous status
Start ==
  /\ pc \in {"init", "done", "exited"}
  /\ Account
  /\ pc' = "loaded"
  /\ exitCode' = -1
  /\ previous' = load_previous_status(file)
  /\ fetch' = "none"
  /\ current' = "none"
  /\ notifyAttempts' = 0
  /\ delivery' = "none"
  /\ saveCalls' = 0
  /\ savedStatus' = "none"
  /\ writeOk' = FALSE
  /\ UNCHANGED <<file, page>>

\* main, lines 233-235: classify whatever the request brings
Check ==
  /\ pc = "loaded"
  /\ \E o \in Outcomes :
       /\ fetch' = o[1]
       /\ current' = o[2]
  /\ pc' = "checked"
  /\ UNCHANGED <<file, page, exitCode, previous, notifyAttempts, delivery,
                 saveCalls, savedStatus, writeOk, histVars>>

\* main, lines 237-281: the if/elif chain; only its first branch acts
Notify ==
  /\ pc = "checked"
  /\ IF notify_condition(previous, current)
     THEN /\ notifyAttempts' = notifyAttempts + 1
          /\ delivery' \in DeliveryOutcomes
     ELSE UNCHANGED <<notifyAttempts, delivery>>
  /\ pc' = "decided"
  /\ UNCHANGED <<file, page, exitCode, previous, fetch, current, saveCalls,
                 savedStatus, writeOk, histVars>>

\* variant: the run ends without saving when the delivery failed
Save_unless_failed ==
  /\ pc = "decided"
  /\ IF notifyAttempts = 1 /\ ~send_notification(delivery)
     THEN UNCHANGED <<file, writeOk, saveCalls, savedStatus>>
     ELSE /\ \E ok \in BOOLEAN :
               /\ file' = save_current_status(file, current, ok)
               /\ writeOk' = ok
          /\ saveCalls' = saveCalls + 1
          /\ savedStatus' = current
  /\ pc' = "done"
  /\ exitCode' = 0
  /\ UNCHANGED <<page, previous, fetch, current, notifyAttempts, delivery,
                 histVars>>

\* variant: after a failed delivery the old status is kept for a retry
Save_keep_previous ==
  /\ pc = "decided"
  /\ LET st == IF notifyAttempts = 1 /\ ~send_notification(delivery)
               THEN previous ELSE current
     IN /\ \E ok \in BOOLEAN :
             /\ file' = save_current_status(file, st, ok)
             /\ writeOk' = ok
        /\ savedStatus' = st
  /\ saveCalls' = saveCalls + 1
  /\ pc' = "done"
  /\ exitCode' = 0
  /\ UNCHANGED <<page, previous, fetch, current, notifyAttempts, delivery,
                 histVars>>

\* main, lines 283-284, and the normal end of the process
Save ==
  /\ pc = "decided"
  /\ \E ok \in BOOLEAN :
       /\ file' = save_current_status(file, current, ok)
       /\ writeOk' = ok
  /\ saveCalls' = saveCalls + 1
  /\ savedStatus' = current
  /\ pc' = "done"
  /\ exitCode' = 0
  /\ UNCHANGED <<page, previous, fetch, current, notifyAttempts, delivery,
                 histVars>>

Next == ConfigMissing \/ Start \/ Check \/ Notify \/ Save

Spec == Init /\ [][Next]_vars

\* ------------------------------------------- the classifier on its own
InitClassify ==
  /\ \E i \in Inputs : fetch = i[1] /\ page = i[2]
  /\ file = "absent"
  /\ pc = "classify"
  /\ exitCode = -1
  /\ previous = "None"
  /\ current = "none"
  /\ notifyAttempts = 0
  /\ delivery = "none"
  /\ saveCalls = 0
  /\ savedStatus = "none"
  /\ writeOk = FALSE
  /\ InitHist

\* one call of check_stock_status on the drawn input
ClassifyPage ==
  /\ pc = "classify"
  /\ current' = check_stock_status(fetch, page)
  /\ pc' = "classified"
  /\ UNCHANGED <<file, page, exitCode, previous, fetch, notifyAttempts,
                 delivery, saveCalls, savedStatus, writeOk, histVars>>

NextClassify == ClassifyPage

SpecClassify == InitClassify /\ [][NextClassify]_vars

\* ================================================================ claims
Decided == pc \in {"decided", "done"}

\* C1: in a run that passed the configuration check a notification is
\* attempted if and only if the current status is IN_STOCK or PARTIAL_STOCK
\* and the previous status, as loaded from the status file, is neither; an
\* absent (or unreadable) file loads as None, which is not in stock.
C1_NotifyIff ==
  /\ Decided =>
       /\ notifyAttempts \in {0, 1}
       /\ notifyAttempts = 1 <=>
            (current \in Available /\ previous \notin Available)
  /\ pc = "decided" =>
       /\ file \in {"absent", "corrupt"} => previous = "None"
       /\ file \in Statuses => previous = file

C1_Witness ==
  /\ pc = "done"
  /\ lastClass = "none"
  /\ previous = "None"
  /\ current = "IN_STOCK"
  /\ notifyAttempts = 1

\* C2: across runs that each load what the run before wrote, starting with
\* no status file, a run notifies exactly when it classifies available and
\* it is the first run or the run before it did not classify available; the
\* runs OUT_OF_STOCK, IN_STOCK, IN_STOCK, OUT_OF_STOCK, IN_STOCK notify on
\* the 2nd and the 5th only.
C2_EdgeTriggered ==
  /\ (Decided /\ (lastClass = "none" \/ lastWriteOk)) =>
       (notifyAttempts = 1 <=>
          (current \in Available /\ lastClass \notin Available))
  /\ scen >= 0 => scenNotified = {k \in {2, 5} : k <= scen}

C2_Witness == scen = Len(Scenario) /\ scenNotified = {2, 5}

\* C3: save_current_status is called exactly once per run, as the last step,
\* after the notification decision and attempt, whatever the delivery
\* outcome, with the run's classification; the file changes in no other
\* step and holds that classification once written.
C3_SaveOnceLast ==
  /\ [](pc = "done" =>
          /\ saveCalls = 1
          /\ current \in Statuses
          /\ savedStatus = current
          /\ writeOk => file = current)
  /\ [](pc \in {"loaded", "checked", "decided"} => saveCalls = 0)
  /\ [][(file' # file \/ saveCalls' > saveCalls) =>
          (pc = "decided" /\ pc' = "done")]_vars

C3_Witness ==
  /\ pc = "done"
  /\ notifyAttempts = 1
  /\ delivery = "smtp_error"
  /\ current = "PARTIAL_STOCK"
  /\ saveCalls = 1
  /\ file = "PARTIAL_STOCK"

C9_FailureIsError ==
  /\ (pc \in {"checked", "decided", "done"} /\ fetch # "ok") =>
       current = "ERROR"
  /\ (pc = "done" /\ fetch # "ok") =>
       /\ notifyAttempts = 0
       /\ saveCalls = 1
       /\ savedStatus = "ERROR"
       /\ writeOk => file = "ERROR"
       /\ exitCode = 0

C9_Witness ==
  /\ pc = "done"
  /\ fetch = "timeout"
  /\ previous = "IN_STOCK"
  /\ file = "ERROR"
  /\ notifyAttempts = 0

\* C10 as stated: a run classified ERROR or UNKNOWN attempts no notification,
\* and after an available run followed only by ERROR/UNKNOWN runs an
\* available run attempts no notification.
C10_Original ==
  Decided =>
    /\ current \in {"ERROR", "UNKNOWN"} => notifyAttempts = 0
    /\ (availMemory = "avail_then_err" /\ current \in Available) =>
         notifyAttempts = 0

\* C10 amended: a run classified ERROR or UNKNOWN attempts no notification,
\* but the status it writes does end the availability memory: the available
\* run that follows it attempts a notification.
C10_ErrorResetsEdge ==
  Decided =>
    /\ current \in {"ERROR", "UNKNOWN"} => notifyAttempts = 0
    /\ (availMemory = "avail_then_err" /\ lastWriteOk
        /\ current \in Available) => notifyAttempts = 1

C10_Witness ==
  /\ pc = "done"
  /\ availMemory = "avail_then_err"
  /\ lastWriteOk
  /\ current = "IN_STOCK"
  /\ notifyAttempts = 1

\* ------------------------------------------------- claims on the classifier
\* the call returned from the decision logic: nothing raised and the early
\* return of line 117 was not taken
GatePassed == pc = "classified" /\ fetch = "ok" /\ ~gate_rejects(page)

U == out_of_stock_count(page)
A == in_stock_count(page)
M == total_models(page)

\* occurrences of the product family name and of the vendor name
page_identity_count(p) == TextCount(p, "steam deck") + TextCount(p, "valve")

\* C5 as stated: past the gate, U > 0 and A = 0 give OUT_OF_STOCK for every
\* U and every model count.
C5_Original == (GatePassed /\ U > 0 /\ A = 0) => current = "OUT_OF_STOCK"

\* C5 amended: past the gate with A = 0, the result is OUT_OF_STOCK when
\* U >= 3 and at least 2 model markers are present, and UNKNOWN otherwise.
C5_OutOfStockAtThreshold ==
  (GatePassed /\ U > 0 /\ A = 0) =>
    current = (IF U >= 3 /\ M >= 2 THEN "OUT_OF_STOCK" ELSE "UNKNOWN")

C5_Witness ==
  /\ GatePassed
  /\ U = 3
  /\ A = 0
  /\ M = 2
  /\ current = "OUT_OF_STOCK"

\* C6 as stated: past the gate, A > 0 and U = 0 give IN_STOCK, also with
\* fewer than 2 model markers.
C6_Original == (GatePassed /\ A > 0 /\ U = 0) => current = "IN_STOCK"

\* C6 amended: past the gate with A > 0 and U = 0, the result is IN_STOCK
\* when at least 2 model markers are present, and UNKNOWN otherwise.
C6_InStockWithModels ==
  (GatePassed /\ A > 0 /\ U = 0) =>
    current = (IF M >= 2 THEN "IN_STOCK" ELSE "UNKNOWN")

C6_Witness ==
  /\ GatePassed
  /\ A = 1
  /\ U = 0
  /\ M = 2
  /\ current = "IN_STOCK"

\* C7: past the gate, A > 0 and U > 0 give PARTIAL_STOCK however large U is.
C7_Original == (GatePassed /\ A > 0 /\ U > 0) => current = "PARTIAL_STOCK"

\* C8 as stated: a page with no identity phrase and no model marker is
\* always classified ERROR.
C8_Original ==
  (pc = "classified" /\ fetch = "ok" /\ page_identity_count(page) = 0
   /\ M = 0) => current = "ERROR"

\* C8 amended: a page with a mobile indicator or fewer than 3 of the 7
\* desktop indicators is classified ERROR whatever its counts; a page with
\* no identity phrase and no model marker that shows 3 desktop indicators
\* reaches the decision logic and is classified UNKNOWN.
C8_GateOnContentScore ==
  (pc = "classified" /\ fetch = "ok") =>
    /\ (mobile_detected(page) \/ desktop_content_score(page) < 3) =>
         current = "ERROR"
    /\ (page_identity_count(page) = 0 /\ M = 0) =>
         current = (IF mobile_detected(page) \/ desktop_content_score(page) < 3
                    THEN "ERROR" ELSE "UNKNOWN")

C8_Witness ==
  /\ pc = "classified"
  /\ fetch = "ok"
  /\ page_identity_count(page) = 0
  /\ M = 0
  /\ U > 0
  /\ A > 0
  /\ price_mentions(page) > 0
  /\ desktop_content_score(page) >= 3
  /\ current = "UNKNOWN"

====
